---------------------------- MODULE Spec2Model ----------------------------
(***************************************************************************)
(* A model of internal/db/supabase.go: the process-wide default            *)
(* SupabaseClient (globalClient, globalClientOnce, globalClientMu) with    *)
(* its two accessors InitGlobalClient and GetGlobalClient, the constructor  *)
(* NewSupabaseClient, and the response classification of POST, UploadImage, *)
(* SignUp and Login.                                                        *)
(*                                                                         *)
(* A pointer is a sequence of length at most one: Nil is the nil pointer,   *)
(* <<x>> points to x.  Two clients are the same instance exactly when their *)
(* id fields agree (every construction hands out a fresh id).               *)
(***************************************************************************)
EXTENDS Integers, Sequences, FiniteSets, TLC

\* ------------------------------------------------------------- bounds
NumThreads == 2
MaxCalls == 2

Threads == 1..NumThreads
None == 0
Nil == <<>>

\* The values an environment variable takes: unset (empty) or set.
UrlValues == {"", "https://proj.supabase.co"}
AnonValues == {"", "anon-key"}
ServiceValues == {"", "service-key"}

\* The variadic useServiceKey argument lists.
Args == {<<>>, <<FALSE>>, <<TRUE>>, <<FALSE, TRUE>>}

VARIABLES
  env,           \* the process environment: SUPABASE_URL, SUPABASE_ANON, SUPABASE_SERVICE_KEY
  globalClient,  \* the package variable globalClient (latest write)
  prevClient,    \* the value the latest write of globalClient replaced
  hb,            \* hb[t]: the latest write of globalClient happens before t's next read
  lockKnows,     \* releasing globalClientMu was ordered after the latest write
  onceKnows,     \* completing globalClientOnce was ordered after the latest write
  onceState,     \* globalClientOnce: "fresh", "running" or "done"
  readers,       \* threads holding globalClientMu for reading
  writer,        \* the thread holding globalClientMu exclusively, or None
  waiting,       \* threads blocked in globalClientMu.Lock()
  pc,            \* each thread's position
  arg,           \* each thread's useServiceKey argument, until globalClientOnce.Do has used it
  ret,           \* the value each thread's current call is about to return
  reterr,        \* whether the current call is about to return a non-nil error
  late,          \* whether globalClient was non-nil when the thread's current call began
  slowPaths,     \* how many GetGlobalClient calls have left the fast path
  constructions, \* how many times an accessor has executed NewSupabaseClient
  calls,         \* how many accessor calls have begun
  initCalled,    \* whether InitGlobalClient has ever been called
  returned,      \* the values the completed accessor calls returned
  call           \* the last call of a client method or of the constructor: op, in, out

svars == <<globalClient, prevClient, hb, lockKnows, onceKnows, onceState, readers,
           writer, waiting, pc, arg, ret, reterr, late, slowPaths, constructions,
           calls, initCalled, returned>>
vars == <<env, svars, call>>

\* ------------------------------------------------------ NewSupabaseClient
\* len(useServiceKey) > 0 && useServiceKey[0]
UseService(useServiceKey) == Len(useServiceKey) > 0 /\ useServiceKey[1]

SelectedKey(e, useServiceKey) ==
  IF UseService(useServiceKey) THEN e.SUPABASE_SERVICE_KEY ELSE e.SUPABASE_ANON

\* NewSupabaseClient with a fault: the key is not validated.
NewSupabaseClient_NoKeyCheck(e, useServiceKey, id) ==
  IF e.SUPABASE_URL = ""
  THEN Nil
  ELSE <<[id |-> id, URL |-> e.SUPABASE_URL, APIKey |-> SelectedKey(e, useServiceKey)]>>

\* NewSupabaseClient under environment e; id is the identity of the new object.
NewSupabaseClient(e, useServiceKey, id) ==
  LET url == e.SUPABASE_URL
      apiKey == SelectedKey(e, useServiceKey)
  IN IF url = "" \/ apiKey = ""
     THEN Nil
     ELSE <<[id |-> id, URL |-> url, APIKey |-> apiKey]>>

\* ------------------------------------------------------ shared memory
\* The values a read of globalClient by t may observe: the latest write, or,
\* when nothing orders that write before the read, the value it replaced.
Observable(t) == IF hb[t] THEN {globalClient} ELSE {globalClient, prevClient}

\* t reads globalClient and observes v; having observed the latest write, t
\* does not observe an older one afterwards.
Observe(t, v) ==
  /\ v \in Observable(t)
  /\ hb' = [hb EXCEPT ![t] = hb[t] \/ v = globalClient]

\* globalClient = v, executed by t.
WriteGlobal(t, v) ==
  /\ prevClient' = globalClient
  /\ globalClient' = v
  /\ hb' = [u \in Threads |-> u = t]
  /\ lockKnows' = FALSE
  /\ onceKnows' = FALSE

NoWrite == UNCHANGED <<globalClient, prevClient>>
LockIdle == UNCHANGED <<readers, writer, waiting>>
Locals == UNCHANGED <<arg, late>>
History == UNCHANGED <<constructions, calls, initCalled, returned, slowPaths>>

\* The call of t returns ret[t] (and the error reterr[t]) to its caller.
Return(t) ==
  /\ pc' = [pc EXCEPT ![t] = "idle"]
  /\ returned' = returned \cup {ret[t]}
  /\ ret' = [ret EXCEPT ![t] = Nil]
  /\ reterr' = [reterr EXCEPT ![t] = FALSE]
  /\ late' = [late EXCEPT ![t] = FALSE]
  /\ arg' = [arg EXCEPT ![t] = <<>>]
  /\ UNCHANGED <<constructions, calls, initCalled, slowPaths>>

Goto(t, l) == pc' = [pc EXCEPT ![t] = l]

\* ------------------------------------------------------ GetGlobalClient
CallGet(t) ==
  /\ pc[t] = "idle" /\ calls < MaxCalls
  /\ Goto(t, "g_rlock")
  /\ calls' = calls + 1
  /\ late' = [late EXCEPT ![t] = globalClient # Nil]
  /\ UNCHANGED <<env, call, hb, lockKnows, onceKnows, onceState, arg, ret, reterr,
                 constructions, initCalled, returned, slowPaths>>
  /\ NoWrite /\ LockIdle

\* line 46: globalClientMu.RLock(); a reader waits for a writer that holds or awaits the lock
GetRLock(t) ==
  /\ pc[t] = "g_rlock"
  /\ writer = None /\ waiting = {}
  /\ readers' = readers \cup {t}
  /\ hb' = [hb EXCEPT ![t] = hb[t] \/ lockKnows]
  /\ Goto(t, "g_check")
  /\ UNCHANGED <<env, call, writer, waiting, lockKnows, onceKnows, onceState, ret, reterr>>
  /\ NoWrite /\ Locals /\ History

\* line 47: if globalClient != nil
GetCheck(t) ==
  /\ pc[t] = "g_check"
  /\ \E v \in {globalClient, prevClient} :
       /\ Observe(t, v)
       /\ IF v # Nil
          THEN Goto(t, "g_fast") /\ slowPaths' = slowPaths
          ELSE Goto(t, "g_runlock") /\ slowPaths' = slowPaths + 1
  /\ UNCHANGED <<env, call, lockKnows, onceKnows, onceState, ret, reterr,
                 constructions, calls, initCalled, returned>>
  /\ NoWrite /\ LockIdle /\ Locals

\* line 49: the operand of return globalClient is read while the read lock is held
GetFastRead(t) ==
  /\ pc[t] = "g_fast"
  /\ \E v \in {globalClient, prevClient} :
       /\ Observe(t, v)
       /\ ret' = [ret EXCEPT ![t] = v]
  /\ Goto(t, "g_fast_unlock")
  /\ UNCHANGED <<env, call, lockKnows, onceKnows, onceState, reterr>>
  /\ NoWrite /\ LockIdle /\ Locals /\ History

\* GetFastReturn with a fault: the deferred RUnlock does not run.
GetFastReturn_NoUnlock(t) ==
  /\ pc[t] = "g_fast_unlock"
  /\ Return(t)
  /\ UNCHANGED <<env, call, hb, lockKnows, onceKnows, onceState>>
  /\ NoWrite /\ LockIdle

\* line 48: the deferred globalClientMu.RUnlock() runs and the call returns
GetFastReturn(t) ==
  /\ pc[t] = "g_fast_unlock"
  /\ readers' = readers \ {t}
  /\ lockKnows' = (lockKnows \/ hb[t])
  /\ Return(t)
  /\ UNCHANGED <<env, call, hb, onceKnows, onceState, writer, waiting>>
  /\ NoWrite

\* line 51: globalClientMu.RUnlock()
GetRUnlock(t) ==
  /\ pc[t] = "g_runlock"
  /\ readers' = readers \ {t}
  /\ lockKnows' = (lockKnows \/ hb[t])
  /\ Goto(t, "g_lock")
  /\ UNCHANGED <<env, call, hb, onceKnows, onceState, writer, waiting, ret, reterr>>
  /\ NoWrite /\ Locals /\ History

\* line 54: globalClientMu.Lock() announces the writer, which blocks new readers
GetLockRequest(t) ==
  /\ pc[t] = "g_lock"
  /\ waiting' = waiting \cup {t}
  /\ Goto(t, "g_lock_wait")
  /\ UNCHANGED <<env, call, hb, lockKnows, onceKnows, onceState, readers, writer, ret,
                 reterr>>
  /\ NoWrite /\ Locals /\ History

\* line 54: globalClientMu.Lock() returns once no reader and no writer holds the lock
GetLockAcquire(t) ==
  /\ pc[t] = "g_lock_wait"
  /\ writer = None /\ readers = {}
  /\ writer' = t
  /\ waiting' = waiting \ {t}
  /\ hb' = [hb EXCEPT ![t] = hb[t] \/ lockKnows]
  /\ Goto(t, "g_check2")
  /\ UNCHANGED <<env, call, lockKnows, onceKnows, onceState, readers, ret, reterr>>
  /\ NoWrite /\ Locals /\ History

\* GetCheckLocked with a fault: no second check, the slow path always constructs.
GetCheckLocked_NoRecheck(t) ==
  /\ pc[t] = "g_check2"
  /\ Goto(t, "g_new")
  /\ UNCHANGED <<env, call, hb, lockKnows, onceKnows, onceState, ret, reterr>>
  /\ NoWrite /\ LockIdle /\ Locals /\ History

\* line 57: if globalClient == nil, under the exclusive lock
GetCheckLocked(t) ==
  /\ pc[t] = "g_check2"
  /\ \E v \in {globalClient, prevClient} :
       /\ Observe(t, v)
       /\ IF v = Nil THEN Goto(t, "g_new") ELSE Goto(t, "g_ret")
  /\ UNCHANGED <<env, call, lockKnows, onceKnows, onceState, ret, reterr>>
  /\ NoWrite /\ LockIdle /\ Locals /\ History

\* line 58: globalClient = NewSupabaseClient()
GetConstruct(t) ==
  /\ pc[t] = "g_new"
  /\ WriteGlobal(t, NewSupabaseClient(env, <<>>, constructions + 1))
  /\ constructions' = constructions + 1
  /\ Goto(t, "g_ret")
  /\ UNCHANGED <<env, call, onceState, ret, reterr, calls, initCalled, returned, slowPaths>>
  /\ LockIdle /\ Locals

\* line 61: the operand of return globalClient is read
GetSlowRead(t) ==
  /\ pc[t] = "g_ret"
  /\ \E v \in {globalClient, prevClient} :
       /\ Observe(t, v)
       /\ ret' = [ret EXCEPT ![t] = v]
  /\ Goto(t, "g_unlock")
  /\ UNCHANGED <<env, call, lockKnows, onceKnows, onceState, reterr>>
  /\ NoWrite /\ LockIdle /\ Locals /\ History

\* line 55: the deferred globalClientMu.Unlock() runs and the call returns
GetSlowReturn(t) ==
  /\ pc[t] = "g_unlock"
  /\ writer' = None
  /\ lockKnows' = (lockKnows \/ hb[t])
  /\ Return(t)
  /\ UNCHANGED <<env, call, hb, onceKnows, onceState, readers, waiting>>
  /\ NoWrite

\* ------------------------------------------------------ InitGlobalClient
CallInit(t, a) ==
  /\ pc[t] = "idle" /\ calls < MaxCalls
  /\ Goto(t, "i_once")
  /\ calls' = calls + 1
  /\ initCalled' = TRUE
  /\ late' = [late EXCEPT ![t] = globalClient # Nil]
  /\ arg' = [arg EXCEPT ![t] = a]
  /\ UNCHANGED <<env, call, hb, lockKnows, onceKnows, onceState, ret, reterr,
                 constructions, returned, slowPaths>>
  /\ NoWrite /\ LockIdle

\* line 32: globalClientOnce.Do finds the Once fresh and starts running the function
InitOnceEnter(t) ==
  /\ pc[t] = "i_once"
  /\ onceState = "fresh"
  /\ onceState' = "running"
  /\ Goto(t, "i_body")
  /\ UNCHANGED <<env, call, hb, lockKnows, onceKnows, ret, reterr>>
  /\ NoWrite /\ LockIdle /\ Locals /\ History

\* line 33: globalClient = NewSupabaseClient(useServiceKey...), no lock held
InitOnceBody(t) ==
  /\ pc[t] = "i_body"
  /\ WriteGlobal(t, NewSupabaseClient(env, arg[t], constructions + 1))
  /\ constructions' = constructions + 1
  /\ Goto(t, "i_body_done")
  /\ arg' = [arg EXCEPT ![t] = <<>>]
  /\ UNCHANGED <<env, call, onceState, ret, reterr, late, calls, initCalled, returned,
                 slowPaths>>
  /\ LockIdle

\* line 34: the function has returned and the Once is marked done
InitOnceDone(t) ==
  /\ pc[t] = "i_body_done"
  /\ onceState' = "done"
  /\ onceKnows' = hb[t]
  /\ Goto(t, "i_check")
  /\ UNCHANGED <<env, call, hb, lockKnows, ret, reterr>>
  /\ NoWrite /\ LockIdle /\ Locals /\ History

\* line 32: globalClientOnce.Do returns at once when the Once is done
\* (a caller that finds it running blocks until then)
InitOnceSkip(t) ==
  /\ pc[t] = "i_once"
  /\ onceState = "done"
  /\ hb' = [hb EXCEPT ![t] = hb[t] \/ onceKnows]
  /\ Goto(t, "i_check")
  /\ arg' = [arg EXCEPT ![t] = <<>>]
  /\ UNCHANGED <<env, call, lockKnows, onceKnows, onceState, ret, reterr, late>>
  /\ NoWrite /\ LockIdle /\ History

\* line 36: if globalClient == nil, read with no lock held
InitCheck(t) ==
  /\ pc[t] = "i_check"
  /\ \E v \in {globalClient, prevClient} :
       /\ Observe(t, v)
       /\ IF v = Nil
          THEN Goto(t, "i_fail") /\ reterr' = [reterr EXCEPT ![t] = TRUE]
          ELSE Goto(t, "i_ret") /\ reterr' = reterr
  /\ UNCHANGED <<env, call, lockKnows, onceKnows, onceState, ret>>
  /\ NoWrite /\ LockIdle /\ Locals /\ History

\* line 37: return nil, fmt.Errorf("failed to initialize global Supabase client")
InitFail(t) ==
  /\ pc[t] = "i_fail"
  /\ Return(t)
  /\ UNCHANGED <<env, call, hb, lockKnows, onceKnows, onceState>>
  /\ NoWrite /\ LockIdle

\* line 40: the operand of return globalClient, nil is read with no lock held
InitRead(t) ==
  /\ pc[t] = "i_ret"
  /\ \E v \in {globalClient, prevClient} :
       /\ Observe(t, v)
       /\ ret' = [ret EXCEPT ![t] = v]
  /\ Goto(t, "i_return")
  /\ UNCHANGED <<env, call, lockKnows, onceKnows, onceState, reterr>>
  /\ NoWrite /\ LockIdle /\ Locals /\ History

\* line 40: return globalClient, nil
InitReturn(t) ==
  /\ pc[t] = "i_return"
  /\ Return(t)
  /\ UNCHANGED <<env, call, hb, lockKnows, onceKnows, onceState>>
  /\ NoWrite /\ LockIdle

\* ------------------------------------------------------ specification
Envs == [SUPABASE_URL : UrlValues, SUPABASE_ANON : AnonValues,
         SUPABASE_SERVICE_KEY : ServiceValues]

NoCall == [op |-> "none"]

InitSingleton ==
  /\ globalClient = Nil
  /\ prevClient = Nil
  /\ hb = [t \in Threads |-> TRUE]
  /\ lockKnows = TRUE
  /\ onceKnows = TRUE
  /\ onceState = "fresh"
  /\ readers = {}
  /\ writer = None
  /\ waiting = {}
  /\ pc = [t \in Threads |-> "idle"]
  /\ arg = [t \in Threads |-> <<>>]
  /\ ret = [t \in Threads |-> Nil]
  /\ reterr = [t \in Threads |-> FALSE]
  /\ late = [t \in Threads |-> FALSE]
  /\ slowPaths = 0
  /\ constructions = 0
  /\ calls = 0
  /\ initCalled = FALSE
  /\ returned = {}

Init ==
  /\ env \in Envs
  /\ call = NoCall
  /\ InitSingleton

\* The steps of a call in progress on thread t.
Step(t) ==
  \/ GetRLock(t)
  \/ GetCheck(t)
  \/ GetFastRead(t)
  \/ GetFastReturn(t)
  \/ GetRUnlock(t)
  \/ GetLockRequest(t)
  \/ GetLockAcquire(t)
  \/ GetCheckLocked(t)
  \/ GetConstruct(t)
  \/ GetSlowRead(t)
  \/ GetSlowReturn(t)
  \/ InitOnceEnter(t)
  \/ InitOnceBody(t)
  \/ InitOnceDone(t)
  \/ InitOnceSkip(t)
  \/ InitCheck(t)
  \/ InitFail(t)
  \/ InitRead(t)
  \/ InitReturn(t)

Next ==
  \E t \in Threads :
    \/ CallGet(t)
    \/ \E a \in Args : CallInit(t, a)
    \/ Step(t)

Spec == Init /\ [][Next]_vars

\* Every thread that is inside a call keeps being scheduled.
FairSpec == Spec /\ \A t \in Threads : WF_vars(Step(t))

\* ------------------------------------------------------ response bodies
\* A response body is a sequence of tokens: JSON punctuation, JSON strings,
\* JSON numbers, JSON literals, and words of text that is not JSON.  The
\* empty sequence is the empty body.
LB == [t |-> "punct", s |-> "{"]
RB == [t |-> "punct", s |-> "}"]
COLON == [t |-> "punct", s |-> ":"]
COMMA == [t |-> "punct", s |-> ","]
Str(x) == [t |-> "str", s |-> x]
Num(x) == [t |-> "num", s |-> x]
Lit(x) == [t |-> "lit", s |-> x]
Word(x) == [t |-> "raw", s |-> x]

\* strings.Contains(string(body), w) for a word w
Contains(text, w) ==
  \E i \in 1..Len(text) : text[i].t \in {"str", "raw"} /\ text[i].s = w

\* strings.HasSuffix on sequences of characters
HasSuffix(str, suffix) ==
  /\ Len(str) >= Len(suffix)
  /\ SubSeq(str, Len(str) - Len(suffix) + 1, Len(str)) = suffix

\* Whether the text is one JSON object of scalar members.
IsObject(text) ==
  LET n == Len(text)
  IN /\ n >= 2
     /\ text[1] = LB
     /\ text[n] = RB
     /\ \/ n = 2
        \/ /\ (n - 1) % 4 = 0
           /\ \A i \in 0..(((n - 1) \div 4) - 1) :
                /\ text[2 + 4 * i].t = "str"
                /\ text[3 + 4 * i] = COLON
                /\ text[4 + 4 * i].t \in {"str", "num", "lit"}
                /\ text[5 + 4 * i] = (IF 5 + 4 * i = n THEN RB ELSE COMMA)

NumMembers(text) == (Len(text) - 1) \div 4
MemberKey(text, i) == text[4 * i - 2].s
MemberValue(text, i) == text[4 * i]

\* encoding/json matches an object key to a struct field ignoring letter case.
Lower(k) ==
  CASE k = "ID" -> "id"
    [] k = "Email" -> "email"
    [] k = "ERROR_CODE" -> "error_code"
    [] OTHER -> k

\* uuid.UUID's UnmarshalText: the texts it accepts and the UUID each denotes.
ZeroUUID == "00000000-0000-0000-0000-000000000000"
SomeUUID == "6ba7b810-9dad-11d1-80b4-00c04fd430c8"
UUIDTexts ==
  {ZeroUUID, SomeUUID, "6BA7B810-9DAD-11D1-80B4-00C04FD430C8",
   "{6ba7b810-9dad-11d1-80b4-00c04fd430c8}"}
ParseUUID(x) == IF x = ZeroUUID THEN ZeroUUID ELSE SomeUUID

\* Whether JSON value v can be stored in a struct field of type ty.
Fits(v, ty) ==
  CASE ty = "string" -> v.t = "str"
    [] ty = "int" -> v.t = "num"
    [] ty = "uuid" -> v.t = "str" /\ v.s \in UUIDTexts

Stored(v, ty) == IF ty = "uuid" THEN ParseUUID(v.s) ELSE v.s

\* json.Unmarshal of an object's members i.. into a struct whose fields have the
\* types `types`: a later member overwrites an earlier one, null stores
\* nothing, a value of the wrong type is an error.
RECURSIVE DecodeMembers(_, _, _, _)
DecodeMembers(text, i, types, acc) ==
  IF i > NumMembers(text)
  THEN acc
  ELSE LET f == Lower(MemberKey(text, i))
           v == MemberValue(text, i)
           next ==
             IF f \notin DOMAIN types \/ v = Lit("null")
             THEN acc
             ELSE IF Fits(v, types[f])
                  THEN [acc EXCEPT !.val = [acc.val EXCEPT ![f] = Stored(v, types[f])]]
                  ELSE [acc EXCEPT !.err = TRUE]
       IN DecodeMembers(text, i + 1, types, next)

\* The JSON text null, which json.Unmarshal accepts and which stores nothing.
IsNull(text) == text = <<Lit("null")>>

\* json.Unmarshal(body, &struct): zero is the struct's zero value.
Unmarshal(text, types, zero) ==
  IF IsNull(text)
  THEN [err |-> FALSE, val |-> zero]
  ELSE IF ~IsObject(text)
       THEN [err |-> TRUE, val |-> zero]
       ELSE DecodeMembers(text, 1, types, [err |-> FALSE, val |-> zero])

\* ------------------------------------------------------ client methods
StatusOK == 200
StatusCreated == 201
Statuses == {StatusOK, StatusCreated, 204, 400, 500}

Ok(v) == <<v>>
Error(kind, detail) == <<[kind |-> kind, detail |-> detail]>>

\* What the HTTP sender hands back: a transport error, or a status and a body.
Responses(bodies) == [transportErr : BOOLEAN, status : Statuses, body : bodies]

PostBodies ==
  {<<>>, <<LB, RB>>, <<LB, Str("ok"), COLON, Lit("true"), RB>>,
   <<LB, Str("message"), COLON, Str("duplicate-key"), RB>>}

\* POST, lines 125-141
POST(r) ==
  IF r.transportErr
  THEN [body |-> Nil, err |-> Error("transport", <<>>)]
  ELSE IF Len(r.body) = 0
       THEN [body |-> Ok(<<LB, RB>>), err |-> Nil]
       ELSE IF r.status # StatusCreated
            THEN [body |-> Nil, err |-> Error("supabase error", r.body)]
            ELSE [body |-> Ok(r.body), err |-> Nil]

photoPNG == <<"p", "h", "o", "t", "o", ".", "P", "N", "G">>
photoPng == <<"p", "h", "o", "t", "o", ".", "p", "n", "g">>
photoWebp == <<"p", "h", "o", "t", "o", ".", "w", "e", "b", "p">>
photoJpg == <<"p", "h", "o", "t", "o", ".", "j", "p", "g">>
photo == <<"p", "h", "o", "t", "o">>
pngNoDot == <<"p", "n", "g">>
Filenames == {photoPNG, photoPng, photoWebp, photoJpg, photo, pngNoDot}

\* UploadImage, lines 187-192
ContentType(filename) ==
  IF HasSuffix(filename, <<".", "p", "n", "g">>)
  THEN "image/png"
  ELSE IF HasSuffix(filename, <<".", "w", "e", "b", "p">>)
       THEN "image/webp"
       ELSE "image/jpeg"

UploadBodies == {<<>>, <<LB, Str("Key"), COLON, Str("bucket/photo"), RB>>}

\* UploadImage, lines 184-214; contentType is what line 194 prints
UploadImage(filename, r) ==
  LET contentType == ContentType(filename)
  IN IF r.transportErr
     THEN [contentType |-> contentType, body |-> Nil, err |-> Error("transport", <<>>)]
     ELSE IF r.status >= 400
          THEN [contentType |-> contentType, body |-> Nil,
                err |-> Error("supabase storage error", r.body)]
          ELSE [contentType |-> contentType, body |-> Ok(r.body), err |-> Nil]

UserObject(id, email) ==
  <<LB, Str("id"), COLON, id, COMMA, Str("email"), COLON, email, RB>>

SignUpBodies ==
  {<<>>,
   <<LB, RB>>,
   <<Lit("null")>>,
   <<Word("Bad"), Word("Gateway")>>,
   <<LB, Str("email"), COLON, Str("a@b.com"), RB>>,
   UserObject(Str(ZeroUUID), Str("a@b.com")),
   UserObject(Str(SomeUUID), Str("a@b.com")),
   UserObject(Str("6BA7B810-9DAD-11D1-80B4-00C04FD430C8"), Str("a@b.com")),
   UserObject(Str("not-a-uuid"), Str("a@b.com")),
   UserObject(Num("7"), Str("a@b.com")),
   UserObject(Lit("null"), Str("a@b.com")),
   UserObject(Str(SomeUUID), Num("7")),
   <<LB, Str("ID"), COLON, Str(SomeUUID), COMMA, Str("id"), COLON, Str(ZeroUUID), RB>>,
   <<LB, Str("id"), COLON, Str(ZeroUUID), COMMA, Str("id"), COLON, Str(SomeUUID), RB>>,
   <<LB, Str("id"), COLON, Str(SomeUUID), COMMA, Str("email"), COLON, Str("a@b.com")>>}

\* The struct userResp of SignUp, lines 242-245.
UserRespTypes == [id |-> "uuid", email |-> "string"]
UserRespZero == [id |-> ZeroUUID, email |-> ""]

\* SignUp with a fault: the zero-value id is not rejected.
SignUp_NoZeroCheck(r) ==
  IF r.transportErr
  THEN [user |-> Nil, err |-> Error("failed to send request", <<>>)]
  ELSE IF r.status # StatusOK /\ r.status # StatusCreated
       THEN [user |-> Nil, err |-> Error("failed to sign up user", r.body)]
       ELSE LET userResp == Unmarshal(r.body, UserRespTypes, UserRespZero)
            IN IF userResp.err
               THEN [user |-> Nil, err |-> Error("failed to parse response", <<>>)]
               ELSE [user |-> Ok([ID |-> userResp.val.id, Email |-> userResp.val.email]),
                     err |-> Nil]

\* SignUp, lines 230-262
SignUp(r) ==
  IF r.transportErr
  THEN [user |-> Nil, err |-> Error("failed to send request", <<>>)]
  ELSE IF r.status # StatusOK /\ r.status # StatusCreated
       THEN [user |-> Nil, err |-> Error("failed to sign up user", r.body)]
       ELSE LET userResp == Unmarshal(r.body, UserRespTypes, UserRespZero)
            IN IF userResp.err
               THEN [user |-> Nil, err |-> Error("failed to parse response", <<>>)]
               ELSE IF userResp.val.id = ZeroUUID
                    THEN [user |-> Nil, err |-> Error("user ID missing in response", <<>>)]
                    ELSE [user |-> Ok([ID |-> userResp.val.id,
                                       Email |-> userResp.val.email]),
                          err |-> Nil]

ErrorObject(code, status, msg) ==
  <<LB, Str("code"), COLON, status, COMMA, Str("error_code"), COLON, code, COMMA,
    Str("msg"), COLON, msg, RB>>

LoginBodies ==
  {<<>>,
   <<Lit("null")>>,
   <<Word("Bad"), Word("Gateway")>>,
   <<LB, Str("access_token"), COLON, Str("tok"), COMMA,
     Str("token_type"), COLON, Str("bearer"), RB>>,
   <<LB, Str("access_token"), COLON, Str("tok"), COMMA,
     Str("ERROR_CODE"), COLON, Str("invalid_credentials"), RB>>,
   ErrorObject(Str("invalid_credentials"), Num("400"), Str("Invalid-login-credentials")),
   ErrorObject(Str("email_not_confirmed"), Num("400"), Str("Email-not-confirmed")),
   ErrorObject(Str("user_not_found"), Num("400"), Str("User-not-found")),
   ErrorObject(Str("over_request_rate_limit"), Num("429"), Str("Too-many-requests")),
   ErrorObject(Str("invalid_credentials"), Str("400"), Str("Invalid-login-credentials")),
   ErrorObject(Num("1"), Num("400"), Str("Invalid-login-credentials")),
   <<LB, Str("msg"), COLON, Str("error_code"), RB>>,
   <<LB, Str("error_code"), COLON, Str("invalid_credentials"), COMMA>>,
   <<Word("error_code"), Word("="), Word("invalid_credentials")>>}

\* The struct errorResp of Login, lines 287-291.
ErrorRespTypes == [error_code |-> "string", code |-> "int", msg |-> "string"]
ErrorRespZero == [error_code |-> "", code |-> "0", msg |-> ""]

\* lines 296-305: the switch on errorResp.ErrorCode
LoginReason(errorResp) ==
  CASE errorResp.error_code = "invalid_credentials" -> Error("invalid_credentials", <<>>)
    [] errorResp.error_code = "email_not_confirmed" -> Error("email_not_confirmed", <<>>)
    [] errorResp.error_code = "user_not_found" -> Error("user_not_found", <<>>)
    [] OTHER -> Error("login_failed", <<Str(errorResp.msg)>>)

\* lines 313-319: json.Unmarshal(body, &authResp); the fields of lib.AuthResponse
\* are declared outside this file, so whether an object fits them is an input.
DecodeAuth(text, fits) ==
  IF IsNull(text)
  THEN [authResp |-> Ok(<<LB, RB>>), err |-> Nil]
  ELSE IF IsObject(text) /\ fits
       THEN [authResp |-> Ok(text), err |-> Nil]
       ELSE [authResp |-> Nil, err |-> Error("failed to parse response", <<>>)]

\* Login with a fault: the HTTP status is checked before the error_code marker.
Login_StatusFirst(r, fits) ==
  IF r.transportErr
  THEN [authResp |-> Nil, err |-> Error("failed to send request", <<>>)]
  ELSE IF r.status # StatusOK
       THEN [authResp |-> Nil, err |-> Error("login_failed", r.body)]
       ELSE IF Contains(r.body, "error_code")
            THEN LET errorResp == Unmarshal(r.body, ErrorRespTypes, ErrorRespZero)
                 IN IF errorResp.err
                    THEN [authResp |-> Nil,
                          err |-> Error("failed to parse error response", <<>>)]
                    ELSE [authResp |-> Nil, err |-> LoginReason(errorResp.val)]
            ELSE DecodeAuth(r.body, fits)

\* Login, lines 279-319
Login(r, fits) ==
  IF r.transportErr
  THEN [authResp |-> Nil, err |-> Error("failed to send request", <<>>)]
  ELSE IF Contains(r.body, "error_code")
       THEN LET errorResp == Unmarshal(r.body, ErrorRespTypes, ErrorRespZero)
            IN IF errorResp.err
               THEN [authResp |-> Nil,
                     err |-> Error("failed to parse error response", <<>>)]
               ELSE [authResp |-> Nil, err |-> LoginReason(errorResp.val)]
       ELSE IF r.status # StatusOK
            THEN [authResp |-> Nil, err |-> Error("login_failed", r.body)]
            ELSE DecodeAuth(r.body, fits)

\* ------------------------------------------------------ calls of the methods
Idle == UNCHANGED <<env, svars>>

CallNewSupabaseClient ==
  /\ \E a \in Args :
       call' = [op |-> "NewSupabaseClient", in |-> [useServiceKey |-> a],
                out |-> [client |-> NewSupabaseClient(env, a, 1)]]
  /\ Idle

CallPOST ==
  /\ \E r \in Responses(PostBodies) :
       call' = [op |-> "POST", in |-> r, out |-> POST(r)]
  /\ Idle

CallUploadImage ==
  /\ \E f \in Filenames, r \in Responses(UploadBodies) :
       call' = [op |-> "UploadImage", in |-> [filename |-> f, resp |-> r],
                out |-> UploadImage(f, r)]
  /\ Idle

CallSignUp ==
  /\ \E r \in Responses(SignUpBodies) :
       call' = [op |-> "SignUp", in |-> r, out |-> SignUp(r)]
  /\ Idle

CallLogin ==
  /\ \E r \in Responses(LoginBodies), fits \in BOOLEAN :
       call' = [op |-> "Login", in |-> [resp |-> r, fits |-> fits],
                out |-> Login(r, fits)]
  /\ Idle

NextOps ==
  \/ CallNewSupabaseClient
  \/ CallPOST
  \/ CallUploadImage
  \/ CallSignUp
  \/ CallLogin

\* The constructor and the client's methods, called one after another.
SpecOps == Init /\ [][NextOps]_vars

\* ------------------------------------------------------ properties
EnvPresent == env.SUPABASE_URL # "" /\ env.SUPABASE_ANON # ""
AllIdle == \A t \in Threads : pc[t] = "idle"
LockFree == readers = {} /\ writer = None /\ waiting = {}

\* t is about to write globalClient (lines 58 and 33).
AtWrite(t) == pc[t] \in {"g_new", "i_body"}
\* t is about to read globalClient (lines 47, 49, 57, 61, 36, 40).
AtRead(t) == pc[t] \in {"g_check", "g_fast", "g_check2", "g_ret", "i_check", "i_ret"}

\* C1: while only GetGlobalClient has been called and the environment holds
\* the URL and the anonymous key, NewSupabaseClient has run at most once, and
\* as soon as a call has returned it has run exactly once and every call has
\* returned the one instance that globalClient holds.
C1_OneConstruction ==
  (~initCalled /\ EnvPresent) =>
    /\ constructions <= 1
    /\ returned # {} =>
         (constructions = 1 /\ globalClient # Nil /\ returned = {globalClient})

\* Two calls went past the first check together, both have returned, and there
\* was one construction.
C1_Witness ==
  /\ ~initCalled /\ EnvPresent /\ AllIdle
  /\ slowPaths >= 2 /\ calls >= 2
  /\ constructions = 1 /\ returned = {globalClient}

\* C2: across calls of GetGlobalClient alone there is one construction
\* attempt, and when the configuration is missing every call returns nil.
C2_SingleAttempt ==
  ~initCalled =>
    /\ constructions <= 1
    /\ ~EnvPresent => returned \subseteq {Nil}

\* C3: once globalClient is non-nil no step changes it, and a call that began
\* when it was non-nil returns the instance globalClient holds.
C3_NeverReplaced ==
  [][/\ globalClient # Nil => globalClient' = globalClient
     /\ \A t \in Threads :
          (pc[t] # "idle" /\ pc'[t] = "idle" /\ late[t]) => ret[t] = globalClient]_vars

\* C9: a thread about to write globalClient holds globalClientMu exclusively,
\* and no other thread is about to read or write globalClient.
C9_NoRace ==
  \A t \in Threads :
    AtWrite(t) =>
      /\ writer = t
      /\ \A u \in Threads \ {t} : ~(AtWrite(u) \/ AtRead(u))

\* C10: under fair scheduling every call that has begun returns (a thread
\* begins finitely many calls, so each of them returns exactly when the thread
\* ends up idle for good), and when no call is in progress globalClientMu is
\* held by nobody, for reading or for writing.
C10_Terminates ==
  /\ [](AllIdle => LockFree)
  /\ \A t \in Threads : <>[](pc[t] = "idle")

\* Both accessors have been called, a GetGlobalClient call took the write
\* path, every call has returned and the lock is free.
C10_Witness ==
  /\ AllIdle /\ LockFree
  /\ calls >= 2 /\ initCalled /\ slowPaths >= 1

\* C4: POST returns a body and no error exactly when a response arrived with
\* status 201, whatever its body.
C4_PostStrict201 ==
  call.op = "POST" =>
    ((call.out.err = Nil /\ call.out.body # Nil)
       <=> (~call.in.transportErr /\ call.in.status = StatusCreated))

\* The token that follows "error_code": in the text, if any.
MarkerValues(text) ==
  {text[i + 2] : i \in {j \in 1..(Len(text) - 2) :
                          text[j] = Str("error_code") /\ text[j + 1] = COLON}}

NamedReasons == {"invalid_credentials", "email_not_confirmed", "user_not_found"}

\* C5 as stated: whatever the status, a body that holds the error_code marker
\* yields the named reason its value names, or login_failed with the remote
\* message for any other value, and no AuthResponse; a body without the marker
\* is login_failed when the status is not 200 and a success when it is.
C5_MarkerFirst_Stated ==
  (call.op = "Login" /\ ~call.in.resp.transportErr) =>
    LET r == call.in.resp
        out == call.out
    IN IF Contains(r.body, "error_code")
       THEN /\ out.authResp = Nil
            /\ out.err # Nil
            /\ \A v \in MarkerValues(r.body) :
                 IF v.t = "str" /\ v.s \in NamedReasons
                 THEN out.err[1].kind = v.s
                 ELSE out.err[1].kind = "login_failed"
            /\ MarkerValues(r.body) = {} => out.err[1].kind = "login_failed"
       ELSE IF r.status # StatusOK
            THEN out.authResp = Nil /\ out.err = Error("login_failed", r.body)
            ELSE out.authResp # Nil /\ out.err = Nil

\* C5 as amended: whatever the status, a body that holds the error_code marker
\* yields no AuthResponse; when it decodes as the error object the error is the
\* named reason of its error_code, or login_failed with the remote message for
\* any other value, and when it does not decode the error is a parse failure.
\* A body without the marker is login_failed with the raw body when the status
\* is not 200; with status 200 it is returned whole as the AuthResponse when
\* it decodes, and is a parse failure when it does not.
C5_MarkerFirst ==
  (call.op = "Login" /\ ~call.in.resp.transportErr) =>
    LET r == call.in.resp
        out == call.out
        errorResp == Unmarshal(r.body, ErrorRespTypes, ErrorRespZero)
    IN IF Contains(r.body, "error_code")
       THEN /\ out.authResp = Nil
            /\ out.err # Nil
            /\ errorResp.err => out.err[1].kind = "failed to parse error response"
            /\ (~errorResp.err /\ errorResp.val.error_code \in NamedReasons) =>
                 out.err = Error(errorResp.val.error_code, <<>>)
            /\ (~errorResp.err /\ errorResp.val.error_code \notin NamedReasons) =>
                 out.err = Error("login_failed", <<Str(errorResp.val.msg)>>)
       ELSE IF r.status # StatusOK
            THEN out.authResp = Nil /\ out.err = Error("login_failed", r.body)
            ELSE /\ out.authResp # Nil <=> out.err = Nil
                 /\ out.err # Nil => out.err[1].kind = "failed to parse response"
                 /\ (IsObject(r.body) /\ call.in.fits) => out.authResp = Ok(r.body)
                 /\ IsNull(r.body) => out.authResp = Ok(<<LB, RB>>)
                 /\ (~IsObject(r.body) /\ ~IsNull(r.body)) => out.err # Nil
                 /\ (~call.in.fits /\ ~IsNull(r.body)) => out.err # Nil

\* Status 200 carried the invalid_credentials error object and Login returned
\* the invalid_credentials reason.
C5_Witness ==
  /\ call.op = "Login" /\ ~call.in.resp.transportErr
  /\ call.in.resp.status = StatusOK
  /\ call.in.resp.body =
       ErrorObject(Str("invalid_credentials"), Num("400"), Str("Invalid-login-credentials"))
  /\ call.out.err = Error("invalid_credentials", <<>>)
  /\ call.out.authResp = Nil

\* C6: NewSupabaseClient returns a client exactly when the URL and the key of
\* the selected tier are both non-empty, and the client then holds those two
\* values, so neither field is empty; the result is thus fixed by the URL and
\* the selected key alone.
C6_Construct ==
  call.op = "NewSupabaseClient" =>
    LET a == call.in.useServiceKey
        key == IF a # <<>> /\ a[1] THEN env.SUPABASE_SERVICE_KEY ELSE env.SUPABASE_ANON
        client == call.out.client
    IN /\ client # Nil <=> (env.SUPABASE_URL # "" /\ key # "")
       /\ client # Nil =>
            /\ client[1].URL = env.SUPABASE_URL /\ client[1].APIKey = key
            /\ client[1].URL # "" /\ client[1].APIKey # ""

\* The service tier was selected with the anonymous key unset, and a client
\* holding the service key came back.
C6_Witness ==
  /\ call.op = "NewSupabaseClient"
  /\ call.in.useServiceKey = <<TRUE>>
  /\ env.SUPABASE_ANON = ""
  /\ call.out.client # Nil
  /\ call.out.client[1].APIKey = env.SUPABASE_SERVICE_KEY

\* C7: UploadImage takes photo.PNG for image/png, photo.webp for image/webp,
\* and photo.jpg and photo for image/jpeg.
C7_ContentTypes ==
  call.op = "UploadImage" =>
    /\ call.in.filename \in {photoPNG, photoPng} => call.out.contentType = "image/png"
    /\ call.in.filename = photoWebp => call.out.contentType = "image/webp"
    /\ call.in.filename \in {photoJpg, photo} => call.out.contentType = "image/jpeg"

\* The positions of the members of an object that json.Unmarshal stores in ID.
IdMembers(text) ==
  {i \in 1..NumMembers(text) : Lower(MemberKey(text, i)) = "id"}

\* C8: SignUp returns a User only for status 200 or 201 and an id that is not
\* the zero UUID, and the User holds the id and the email of the body; status
\* 200 or 201 with a zero or absent id yields an error and no User.
C8_SignUp ==
  (call.op = "SignUp" /\ ~call.in.transportErr) =>
    LET r == call.in
        out == call.out
        ok == r.status \in {StatusOK, StatusCreated}
    IN /\ out.user # Nil =>
            /\ ok /\ out.err = Nil
            /\ out.user[1].ID # ZeroUUID
            /\ \E i \in IdMembers(r.body) :
                 ParseUUID(MemberValue(r.body, i).s) = out.user[1].ID
            /\ \/ \E i \in 1..NumMembers(r.body) :
                    /\ Lower(MemberKey(r.body, i)) = "email"
                    /\ MemberValue(r.body, i).s = out.user[1].Email
               \/ out.user[1].Email = ""
       /\ (ok /\ \A i \in IdMembers(r.body) : MemberValue(r.body, i) = Str(ZeroUUID)) =>
            (out.user = Nil /\ out.err # Nil)

\* Status 201 carried the zero UUID and SignUp returned the missing-id error.
C8_Witness ==
  /\ call.op = "SignUp" /\ ~call.in.transportErr
  /\ call.in.status = StatusCreated
  /\ call.in.body = UserObject(Str(ZeroUUID), Str("a@b.com"))
  /\ call.out.user = Nil
  /\ call.out.err = Error("user ID missing in response", <<>>)

=============================================================================
